---- MODULE Spec2Model ----
(***************************************************************************)
(* Model of the Redis-backed Cache of 0x02-redis_basic/exercise.py: the    *)
(* count_calls and call_history decorators, replay, Cache.store / get /    *)
(* get_str / get_int, and the uninstrumented Cache.store of exercise.py.   *)
(*                                                                         *)
(* Python values are records [kind, v] whose payload v is a sequence of    *)
(* integers: the bytes of a bytes object, the code points of a str, the    *)
(* one-element sequence <<n>> of an int, <<t>> for the float t/10 and <<>>  *)
(* for None.  Exceptions are values whose kind is the exception's name.    *)
(* Redis keys and string values are byte sequences.                        *)
(***************************************************************************)
EXTENDS Integers, Sequences, FiniteSets, TLC

\* ------------------------------------------------------------ bounds

\* Total number of store calls started in one run.
MaxCalls == 2

\* Number of concurrent callers of the concurrent specification.
NumCallers == 2

\* Number of Cache facades constructed on the store in one run, the first
\* included.
MaxFacades == 2

\* Total number of get_page calls in one run.
MaxPageCalls == 3

\* ------------------------------------------------------- Python values

PyBytes(b) == [kind |-> "bytes", v |-> b]
PyStr(s) == [kind |-> "str", v |-> s]
PyInt(n) == [kind |-> "int", v |-> <<n>>]
PyFloat(t) == [kind |-> "float", v |-> <<t>>]
PyNone == [kind |-> "NoneType", v |-> <<>>]
PyRaise(e) == [kind |-> e, v |-> <<>>]

Exceptions ==
    {"DataError", "ValueError", "TypeError", "UnicodeDecodeError",
     "UnicodeEncodeError", "ResponseError", "ConnectionError"}

IsException(x) == x.kind \in Exceptions

\* Python's == on the modelled values: values of different types differ
\* (b"bar" != "bar", b"123" != 123).
PyEq(a, b) == a.kind = b.kind /\ a.v = b.v

Abs(n) == IF n < 0 THEN -n ELSE n

RECURSIVE NatDigits(_)
\* The decimal digits of a natural number, as ASCII code points.
NatDigits(n) ==
    IF n < 10 THEN <<48 + n>> ELSE NatDigits(n \div 10) \o <<48 + (n % 10)>>

\* repr(n) of an int.
IntRepr(n) == IF n < 0 THEN <<45>> \o NatDigits(-n) ELSE NatDigits(n)

\* repr(x) of the float x = t/10 (one fractional digit, e.g. 1.5, -0.5, 2.0).
FloatRepr(t) ==
    (IF t < 0 THEN <<45>> ELSE <<>>)
        \o NatDigits(Abs(t) \div 10) \o <<46>> \o NatDigits(Abs(t) % 10)

HexDigit(d) == IF d < 10 THEN 48 + d ELSE 87 + d

\* The \xNN escape repr() writes for a byte or code point below 256.
HexEscape(c) == <<92, 120, HexDigit(c \div 16), HexDigit(c % 16)>>

\* The quote repr() puts around a str or bytes literal: a single quote, or a
\* double quote when the text holds a single quote and no double quote.
ReprQuote(v) ==
    IF (\E i \in 1..Len(v) : v[i] = 39) /\ ~(\E i \in 1..Len(v) : v[i] = 34)
    THEN 34 ELSE 39

\* One byte inside repr(bytes) quoted with q: printable ASCII stays, the rest
\* is escaped.
ReprByte(c, q) ==
    IF c = 92 THEN <<92, 92>>
    ELSE IF c = q THEN <<92, c>>
    ELSE IF c = 9 THEN <<92, 116>>
    ELSE IF c = 10 THEN <<92, 110>>
    ELSE IF c = 13 THEN <<92, 114>>
    ELSE IF c >= 32 /\ c <= 126 THEN <<c>>
    ELSE HexEscape(c)

\* One code point (below 256) inside repr(str) quoted with q: printable
\* characters stay as they are, also the non-ASCII ones; control characters
\* are escaped.
ReprChar(c, q) ==
    IF c = 92 THEN <<92, 92>>
    ELSE IF c = q THEN <<92, c>>
    ELSE IF c = 9 THEN <<92, 116>>
    ELSE IF c = 10 THEN <<92, 110>>
    ELSE IF c = 13 THEN <<92, 114>>
    ELSE IF c < 32 \/ (c >= 127 /\ c <= 160) \/ c = 173 THEN HexEscape(c)
    ELSE <<c>>

RECURSIVE Flatten(_)
Flatten(ss) == IF ss = <<>> THEN <<>> ELSE Head(ss) \o Flatten(Tail(ss))

\* repr(x), as the code points of the resulting str.
PyRepr(x) ==
    CASE x.kind = "bytes" ->
            <<98, ReprQuote(x.v)>>
                \o Flatten([i \in 1..Len(x.v) |-> ReprByte(x.v[i], ReprQuote(x.v))])
                \o <<ReprQuote(x.v)>>
      [] x.kind = "str" ->
            <<ReprQuote(x.v)>>
                \o Flatten([i \in 1..Len(x.v) |-> ReprChar(x.v[i], ReprQuote(x.v))])
                \o <<ReprQuote(x.v)>>
      [] x.kind = "int" -> IntRepr(x.v[1])
      [] x.kind = "float" -> FloatRepr(x.v[1])
      [] OTHER -> <<78, 111, 110, 101>>

\* str(x): a str is itself, everything else is its repr.
PyStrOf(x) == IF x.kind = "str" THEN x.v ELSE PyRepr(x)

\* str(args) of the one-element argument tuple (data,): "(" repr(data) ",)".
StrOfArgs(data) == <<40>> \o PyRepr(data) \o <<44, 41>>

\* --------------------------------------------------------------- UTF-8

IsSurrogate(c) == c >= 55296 /\ c <= 57343

\* The UTF-8 bytes of one code point.
Utf8Char(c) ==
    IF c < 128 THEN <<c>>
    ELSE IF c < 2048 THEN <<192 + (c \div 64), 128 + (c % 64)>>
    ELSE IF c < 65536
         THEN <<224 + (c \div 4096), 128 + ((c \div 64) % 64), 128 + (c % 64)>>
    ELSE <<240 + (c \div 262144), 128 + ((c \div 4096) % 64),
           128 + ((c \div 64) % 64), 128 + (c % 64)>>

\* s.encode("utf-8"): [ok, b]; a lone surrogate cannot be encoded.
Utf8Encode(s) ==
    IF \E i \in 1..Len(s) : IsSurrogate(s[i])
    THEN [ok |-> FALSE, b |-> <<>>]
    ELSE [ok |-> TRUE, b |-> Flatten([i \in 1..Len(s) |-> Utf8Char(s[i])])]

IsCont(b, i) == i <= Len(b) /\ b[i] >= 128 /\ b[i] <= 191

RECURSIVE Utf8DecodeFrom(_, _, _)
\* Strict UTF-8 decoding of b from position i on, acc being the code points
\* decoded so far: overlong forms, surrogates, lone continuation bytes and
\* truncated sequences are errors.
Utf8DecodeFrom(b, i, acc) ==
    IF i > Len(b) THEN [ok |-> TRUE, s |-> acc]
    ELSE IF b[i] < 128 THEN Utf8DecodeFrom(b, i + 1, Append(acc, b[i]))
    ELSE IF b[i] >= 194 /\ b[i] <= 223 /\ IsCont(b, i + 1)
         THEN Utf8DecodeFrom(b, i + 2,
                  Append(acc, (b[i] - 192) * 64 + (b[i + 1] - 128)))
    ELSE IF b[i] >= 224 /\ b[i] <= 239 /\ IsCont(b, i + 1) /\ IsCont(b, i + 2)
            /\ (b[i] - 224) * 4096 + (b[i + 1] - 128) * 64 >= 2048
            /\ ~IsSurrogate((b[i] - 224) * 4096 + (b[i + 1] - 128) * 64)
         THEN Utf8DecodeFrom(b, i + 3,
                  Append(acc, (b[i] - 224) * 4096 + (b[i + 1] - 128) * 64
                                  + (b[i + 2] - 128)))
    ELSE IF b[i] >= 240 /\ b[i] <= 244 /\ IsCont(b, i + 1) /\ IsCont(b, i + 2)
            /\ IsCont(b, i + 3)
            /\ (b[i] - 240) * 262144 + (b[i + 1] - 128) * 4096 >= 65536
            /\ (b[i] - 240) * 262144 + (b[i + 1] - 128) * 4096 < 1114112
         THEN Utf8DecodeFrom(b, i + 4,
                  Append(acc, (b[i] - 240) * 262144 + (b[i + 1] - 128) * 4096
                                  + (b[i + 2] - 128) * 64 + (b[i + 3] - 128)))
    ELSE [ok |-> FALSE, s |-> <<>>]

\* b.decode("utf-8"): [ok, s].
Utf8Decode(b) == Utf8DecodeFrom(b, 1, <<>>)
\* DecodeUtf8 with the wrong codec: d.decode("latin-1"), one code point a byte.
DecodeLatin1(b) == PyStr(b)

\* d.decode("utf-8") as a Python value: the str, or UnicodeDecodeError.
DecodeUtf8(b) ==
    LET r == Utf8Decode(b) IN IF r.ok THEN PyStr(r.s) ELSE PyRaise("UnicodeDecodeError")

\* ------------------------------------------------------------- int(bytes)

IsSpace(c) == c = 32 \/ (c >= 9 /\ c <= 13)

RECURSIVE LStrip(_)
LStrip(b) == IF b # <<>> /\ IsSpace(Head(b)) THEN LStrip(Tail(b)) ELSE b

RECURSIVE RStrip(_)
RStrip(b) ==
    IF b # <<>> /\ IsSpace(b[Len(b)]) THEN RStrip(SubSeq(b, 1, Len(b) - 1)) ELSE b

IsDigit(c) == c >= 48 /\ c <= 57

\* The digits of an int literal: digits, with single underscores allowed
\* between two digits only.
IsDigitRun(b) ==
    /\ b # <<>>
    /\ \A i \in 1..Len(b) : IsDigit(b[i]) \/ b[i] = 95
    /\ \A i \in 1..Len(b) :
        b[i] = 95 => i > 1 /\ i < Len(b) /\ IsDigit(b[i - 1]) /\ IsDigit(b[i + 1])

RECURSIVE DigitsValue(_, _)
DigitsValue(b, acc) ==
    IF b = <<>> THEN acc
    ELSE IF Head(b) = 95 THEN DigitsValue(Tail(b), acc)
    ELSE DigitsValue(Tail(b), acc * 10 + (Head(b) - 48))

\* The unsigned part of a stripped literal.
Unsigned(b) == IF b # <<>> /\ Head(b) \in {43, 45} THEN Tail(b) ELSE b

\* int(b) for a bytes object b, base 10: [ok, n]; surrounding white space and
\* a sign are accepted, anything else raises ValueError.
ParseInt(b) ==
    LET t == RStrip(LStrip(b))
    IN  IF IsDigitRun(Unsigned(t))
        THEN [ok |-> TRUE,
              n |-> IF Head(t) = 45 THEN -DigitsValue(Unsigned(t), 0)
                    ELSE DigitsValue(Unsigned(t), 0)]
        ELSE [ok |-> FALSE, n |-> 0]

\* int(d) as a Python value: the int, or ValueError.
IntOf(b) ==
    LET r == ParseInt(b) IN IF r.ok THEN PyInt(r.n) ELSE PyRaise("ValueError")

\* ----------------------------------------------------------------- Redis

\* method.__qualname__ of Cache.store: "Cache.store".
QualName == <<67, 97, 99, 104, 101, 46, 115, 116, 111, 114, 101>>

\* f"{method.__qualname__}:inputs"
InputKey == QualName \o <<58, 105, 110, 112, 117, 116, 115>>

\* f"{method.__qualname__}:outputs"
OutputKey == QualName \o <<58, 111, 117, 116, 112, 117, 116, 115>>

\* str(uuid.uuid4()): the i-th identifier the generator can produce, written
\* "u<i>" (a real one is 36 characters; all that matters is that they are
\* distinct ASCII strings that differ from the instrumentation keys).
Uuid(i) == <<117>> \o NatDigits(i)

UUIDs == {Uuid(i) : i \in 1..MaxCalls}

\* A key no operation of the program writes: "nope".
MissingKey == <<110, 111, 112, 101>>

Keyspace == UUIDs \cup {QualName, InputKey, OutputKey, MissingKey}

\* The value of an absent string key (no byte is negative).
Nil == <<-1>>

\* A database: the string values and the lists, by key. An absent key has
\* the string Nil and the empty list (Redis deletes a list when it empties).
EmptyDb == [str |-> [k \in Keyspace |-> Nil], list |-> [k \in Keyspace |-> <<>>]]

\* A flush that deletes the string keys only and keeps the lists.
FlushDbStringsOnly(db) == [db EXCEPT !.str = EmptyDb.str]

\* FLUSHDB.
FlushDb(db) == EmptyDb

\* redis-py's encoding of a command argument: bytes as they are, int and
\* float by repr, str by UTF-8; any other type raises DataError.
RedisEncode(x) ==
    CASE x.kind = "bytes" -> [ok |-> TRUE, b |-> x.v, err |-> ""]
      [] x.kind = "int" -> [ok |-> TRUE, b |-> IntRepr(x.v[1]), err |-> ""]
      [] x.kind = "float" -> [ok |-> TRUE, b |-> FloatRepr(x.v[1]), err |-> ""]
      [] x.kind = "str" ->
            LET e == Utf8Encode(x.v)
            IN  IF e.ok THEN [ok |-> TRUE, b |-> e.b, err |-> ""]
                ELSE [ok |-> FALSE, b |-> <<>>, err |-> "UnicodeEncodeError"]
      [] OTHER -> [ok |-> FALSE, b |-> <<>>, err |-> "DataError"]

\* SET key value: overwrites whatever the key held.
RedisSet(db, key, b) == [db EXCEPT !.str[key] = b, !.list[key] = <<>>]

\* GET key, as redis-py returns it: None for an absent key, the bytes of a
\* string, ResponseError (WRONGTYPE) for a list.
RedisGet(db, key) ==
    IF db.list[key] # <<>> THEN PyRaise("ResponseError")
    ELSE IF db.str[key] = Nil THEN PyNone
    ELSE PyBytes(db.str[key])
\* RedisIncr with the counter overwritten instead of incremented (SET key 1).
RedisIncrOverwrite(db, key) ==
    IF db.list[key] # <<>> THEN [ok |-> FALSE, db |-> db, n |-> 0]
    ELSE [ok |-> TRUE, db |-> [db EXCEPT !.str[key] = IntRepr(1)], n |-> 1]

\* INCR key: [ok, db, n]; an absent key counts from 0, the new value is
\* stored in decimal; a list or a non-integer string is an error.
RedisIncr(db, key) ==
    LET old == ParseInt(db.str[key])
    IN  IF db.list[key] # <<>> THEN [ok |-> FALSE, db |-> db, n |-> 0]
        ELSE IF db.str[key] = Nil
             THEN [ok |-> TRUE, db |-> [db EXCEPT !.str[key] = IntRepr(1)], n |-> 1]
        ELSE IF old.ok
             THEN [ok |-> TRUE, db |-> [db EXCEPT !.str[key] = IntRepr(old.n + 1)],
                   n |-> old.n + 1]
        ELSE [ok |-> FALSE, db |-> db, n |-> 0]
\* RedisRPush inserting at the head of the list (LPUSH) instead of the tail.
RedisLPush(db, key, b) ==
    IF db.str[key] # Nil THEN [ok |-> FALSE, db |-> db]
    ELSE [ok |-> TRUE, db |-> [db EXCEPT !.list[key] = <<b>> \o @]]

\* RPUSH key value: [ok, db]; appends at the tail; a string key is an error.
RedisRPush(db, key, b) ==
    IF db.str[key] # Nil THEN [ok |-> FALSE, db |-> db]
    ELSE [ok |-> TRUE, db |-> [db EXCEPT !.list[key] = Append(@, b)]]

\* A start or stop index of LRANGE as a 1-based position of a list of n
\* entries (negative indexes count from the tail).
ListIndex(i, n) == IF i < 0 THEN n + i + 1 ELSE i + 1

\* LRANGE key start stop (both inclusive): [ok, l].
RedisLRange(db, key, start, stop) ==
    LET n == Len(db.list[key])
        first == ListIndex(start, n)
        last == ListIndex(stop, n)
    IN  IF db.str[key] # Nil THEN [ok |-> FALSE, l |-> <<>>]
        ELSE [ok |-> TRUE,
              l |-> SubSeq(db.list[key], IF first < 1 THEN 1 ELSE first,
                           IF last > n THEN n ELSE last)]

\* The bytes redis-py sends for a key given as a str.
KeyOf(k) == Utf8Encode(k).b

\* The keys of the counter and of the two history lists, as sent.
CounterKey == KeyOf(QualName)

InputsKey == KeyOf(InputKey)

OutputsKey == KeyOf(OutputKey)

\* ----------------------------------------------------------------- state

VARIABLES
    redis,  \* the database behind Cache._redis of 0x02-redis_basic/exercise.py
    plain,  \* the uninstrumented Cache of exercise.py run on the same calls:
            \* its own database and the result of its last store
    pc,     \* where each caller stands: "idle" or the next store command
    frame,  \* the locals of each caller's call in progress
    ret,    \* what each caller's last finished call returned or raised
    out,    \* the lines each caller's last replay printed
    log,    \* the store calls in invocation order: the argument, the outcome
            \* (st, res), what the counter and the lists were at the call
            \* (pre), the place its input took in the inputs list (ipos),
            \* whether a flush happened while it ran (cut), the caller (by)
            \* and the calls that were running when it began (conc)
    built,  \* the number of Cache facades constructed so far
    web     \* web.py: its store, the network and the last result of get_page

vars == <<redis, plain, pc, frame, ret, out, log, built, web>>

Procs == 1..NumCallers

\* The arguments callers pass to store: b"h\xff", "h\xe9", 123, -5, 1.5
\* and None (a value of a type the store does not accept).
Values ==
    {PyBytes(<<104, 255>>), PyStr(<<104, 233>>), PyInt(123), PyInt(-5),
     PyFloat(15), PyNone}

\* The arguments of the concurrent callers.
ConcValues == {PyInt(123), PyNone}

\* The keys callers pass to get / get_str / get_int.
GetKeys == UUIDs \cup {QualName, InputKey, MissingKey}

\* The converters callers pass to get: None, int, lambda d: d.decode("utf-8").
Converters == {"none", "int", "utf8"}

NoFrame ==
    [op |-> "none", data |-> PyNone, output |-> PyNone, inputs |-> <<>>, idx |-> 0]

NoRet == [op |-> "none", key |-> <<>>, fn |-> "none", val |-> PyNone]

\* The call counter as an observer reads it: int(get(name) or 0).
CounterValue(db) ==
    IF db.str[CounterKey] = Nil THEN 0 ELSE ParseInt(db.str[CounterKey]).n

Inputs(db) == db.list[InputsKey]

Outputs(db) == db.list[OutputsKey]

\* --------------------------------------------------------------- web.py

\* setex(cached_key, 10, content): the seconds a cached page lives.
Ttl == 10

\* The seconds of one run.
MaxTime == 12

\* The URLs asked for: "a" and "b".
Urls == {<<97>>, <<98>>}

\* The texts a page can have (response.text): the empty text and "h\xe9".
Contents == {PyStr(<<>>), PyStr(<<104, 233>>)}

\* What the network gives for a URL: a text, or requests.get raising.
NetStates == Contents \cup {PyRaise("ConnectionError")}

\* f"count:{url}"
CountKey(url) == KeyOf(<<99, 111, 117, 110, 116, 58>> \o url)

\* f"cache:{url}"
CacheKey(url) == KeyOf(<<99, 97, 99, 104, 101, 58>> \o url)

WebKeys == {CountKey(u) : u \in Urls} \cup {CacheKey(u) : u \in Urls}

\* No page was read from the network yet.
NoRead == [done |-> FALSE, at |-> 0, text |-> PyNone]

\* web.py when it is loaded: _redis = redis.Redis() on a store with none of
\* its keys, no call made.  db is the store, exp the second a key expires at
\* (0: never), now the clock, net what the network gives per URL; pc and url
\* are the position and the argument of the call in progress, ret what the
\* last call returned; ncalls, reads and last record, per URL, the calls made,
\* the network reads made and the last network read that was cached.
WebInit ==
    [db |-> [str |-> [k \in WebKeys |-> Nil], list |-> [k \in WebKeys |-> <<>>]],
     exp |-> [k \in WebKeys |-> 0],
     now |-> 0,
     net |-> [u \in Urls |-> PyStr(<<104, 233>>)],
     pc |-> "idle",
     url |-> <<>>,
     ret |-> PyNone,
     hit |-> FALSE,
     ncalls |-> [u \in Urls |-> 0],
     reads |-> [u \in Urls |-> 0],
     last |-> [u \in Urls |-> NoRead]]

Init ==
    /\ redis = EmptyDb
    /\ plain = [db |-> EmptyDb, ret |-> PyNone]
    /\ pc = [p \in Procs |-> "idle"]
    /\ frame = [p \in Procs |-> NoFrame]
    /\ ret = [p \in Procs |-> NoRet]
    /\ out = [p \in Procs |-> <<>>]
    /\ log = <<>>
    /\ built = 1
    /\ web = WebInit

\* ----------------------------------------------------------- Cache.store

\* The body of Cache.store with the generated key: [ok, db, val]; it writes
\* data under key and returns the key, or raises what the encoding of data
\* raises.
StoreOp(db, key, data) ==
    LET e == RedisEncode(data)
    IN  IF e.ok
        THEN [ok |-> TRUE, db |-> RedisSet(db, KeyOf(key), e.b), val |-> PyStr(key)]
        ELSE [ok |-> FALSE, db |-> db, val |-> PyRaise(e.err)]

\* uuid4 never repeats an identifier: the fresh ones are those no key holds.
Fresh(k) ==
    /\ redis.str[KeyOf(k)] = Nil /\ plain.db.str[KeyOf(k)] = Nil
    /\ \A i \in 1..Len(log) : log[i].res # PyStr(k)
    /\ \A p \in Procs : frame[p].output # PyStr(k)

\* A caller invokes cache.store(data).
CallStore(p, data) ==
    /\ pc[p] = "idle"
    /\ Len(log) < MaxCalls
    /\ pc' = [pc EXCEPT ![p] = "incr"]
    /\ frame' = [frame EXCEPT ![p] =
                    [NoFrame EXCEPT !.op = "store", !.data = data,
                                    !.idx = Len(log) + 1]]
    /\ log' = Append(log, [data |-> data, st |-> "running", res |-> PyNone,
                           pre |-> [count |-> CounterValue(redis),
                                    nin |-> Len(Inputs(redis)),
                                    nout |-> Len(Outputs(redis))],
                           ipos |-> 0, cut |-> FALSE, by |-> p,
                           conc |-> {i \in 1..Len(log) : log[i].st = "running"}])
    /\ ret' = [ret EXCEPT ![p] = NoRet]
    /\ out' = [out EXCEPT ![p] = <<>>]
    /\ UNCHANGED <<redis, plain>>

\* The call of p ends by raising exception e.
Raise(p, e) ==
    /\ pc' = [pc EXCEPT ![p] = "idle"]
    /\ ret' = [ret EXCEPT ![p] = [NoRet EXCEPT !.op = frame[p].op, !.val = e]]
    /\ frame' = [frame EXCEPT ![p] = NoFrame]
\* CountCallsWrapper writing back the count it read when the call began plus
\* one (a read followed by a SET) instead of an atomic INCR.
CountCallsWrapperGetSet(p) ==
    /\ pc[p] = "incr"
    /\ redis' = RedisSet(redis, CounterKey,
                         IntRepr(log[frame[p].idx].pre.count + 1))
    /\ pc' = [pc EXCEPT ![p] = "rpush_in"]
    /\ UNCHANGED <<plain, frame, ret, out, log>>

\* CountCallsWrapper without the increment before the call of the method.
CountCallsWrapperLate(p) ==
    /\ pc[p] = "incr"
    /\ pc' = [pc EXCEPT ![p] = "rpush_in"]
    /\ UNCHANGED <<redis, plain, frame, ret, out, log>>

\* count_calls.wrapper: self._redis.incr(method.__qualname__), then the call
\* of the wrapped method (here call_history.wrapper).
CountCallsWrapper(p) ==
    /\ pc[p] = "incr"
    /\ LET r == RedisIncr(redis, CounterKey)
       IN  IF r.ok
           THEN /\ redis' = r.db
                /\ pc' = [pc EXCEPT ![p] = "rpush_in"]
                /\ UNCHANGED <<frame, ret, log>>
           ELSE /\ Raise(p, PyRaise("ResponseError"))
                /\ log' = [log EXCEPT ![frame[p].idx].st = "raised",
                                      ![frame[p].idx].res = PyRaise("ResponseError")]
                /\ UNCHANGED redis
    /\ UNCHANGED <<plain, out>>
\* CallHistoryInput with the input not recorded before the method runs.
CallHistoryInputSkipped(p) ==
    /\ pc[p] = "rpush_in"
    /\ pc' = [pc EXCEPT ![p] = "body"]
    /\ UNCHANGED <<redis, plain, frame, ret, out, log>>

\* call_history.wrapper, up to the call of the method:
\* self._redis.rpush(input_key, str(args)).
CallHistoryInput(p) ==
    /\ pc[p] = "rpush_in"
    /\ LET r == RedisRPush(redis, InputsKey,
                           Utf8Encode(StrOfArgs(frame[p].data)).b)
       IN  IF r.ok
           THEN /\ redis' = r.db
                /\ pc' = [pc EXCEPT ![p] = "body"]
                /\ log' = [log EXCEPT ![frame[p].idx].ipos = Len(Inputs(r.db))]
                /\ UNCHANGED <<frame, ret>>
           ELSE /\ Raise(p, PyRaise("ResponseError"))
                /\ log' = [log EXCEPT ![frame[p].idx].st = "raised",
                                      ![frame[p].idx].res = PyRaise("ResponseError")]
                /\ UNCHANGED redis
    /\ UNCHANGED <<plain, out>>

\* The wrapped Cache.store runs: key = str(uuid.uuid4()); set(key, data);
\* return key. An exception of set leaves both wrappers at once. The
\* uninstrumented Cache.store is run on the same data and key.
StoreBody(p) ==
    /\ pc[p] = "body"
    /\ \E k \in UUIDs :
        LET r == StoreOp(redis, k, frame[p].data)
            q == StoreOp(plain.db, k, frame[p].data)
        IN  /\ Fresh(k)
            /\ plain' = [db |-> q.db, ret |-> q.val]
            /\ IF r.ok
               THEN /\ redis' = r.db
                    /\ frame' = [frame EXCEPT ![p].output = r.val]
                    /\ pc' = [pc EXCEPT ![p] = "rpush_out"]
                    /\ UNCHANGED <<ret, log>>
               ELSE /\ Raise(p, r.val)
                    /\ log' = [log EXCEPT ![frame[p].idx].st = "raised",
                                          ![frame[p].idx].res = r.val]
                    /\ UNCHANGED redis
    /\ UNCHANGED out
\* WrapperReturn with the return statement forgotten: the caller gets None.
WrapperReturnNothing(output) == PyNone

\* What the two wrappers hand back to the caller: the method's output.
WrapperReturn(output) == output

\* call_history.wrapper after the method returned:
\* self._redis.rpush(output_key, str(output)); return output.
CallHistoryOutput(p) ==
    /\ pc[p] = "rpush_out"
    /\ LET r == RedisRPush(redis, OutputsKey,
                           Utf8Encode(PyStrOf(frame[p].output)).b)
       IN  IF r.ok
           THEN /\ redis' = r.db
                /\ pc' = [pc EXCEPT ![p] = "idle"]
                /\ ret' = [ret EXCEPT ![p] =
                              [NoRet EXCEPT !.op = "store",
                                            !.val = WrapperReturn(frame[p].output)]]
                /\ log' = [log EXCEPT ![frame[p].idx].st = "ok",
                                      ![frame[p].idx].res =
                                          WrapperReturn(frame[p].output)]
                /\ frame' = [frame EXCEPT ![p] = NoFrame]
           ELSE /\ Raise(p, PyRaise("ResponseError"))
                /\ log' = [log EXCEPT ![frame[p].idx].st = "raised",
                                      ![frame[p].idx].res = PyRaise("ResponseError")]
                /\ UNCHANGED redis
    /\ UNCHANGED <<plain, out>>

\* ------------------------------------------------ Cache.get / get_str / get_int

\* fn(data) for the converters in use.
ApplyFn(fn, b) == IF fn = "int" THEN IntOf(b) ELSE DecodeUtf8(b)
\* CacheGet on a client that decodes responses: without a converter the
\* caller gets the decoded text instead of the stored bytes.
CacheGetDecoded(db, key, fn) ==
    LET data == RedisGet(db, KeyOf(key))
    IN  IF IsException(data) THEN data
        ELSE IF data = PyNone THEN PyNone
        ELSE IF fn = "none" THEN DecodeUtf8(data.v)
        ELSE ApplyFn(fn, data.v)

\* CacheGet without the test for None: the converter is applied to whatever
\* the store returned, and int(None) and None.decode raise.
CacheGetUnchecked(db, key, fn) ==
    LET data == RedisGet(db, KeyOf(key))
    IN  IF IsException(data) THEN data
        ELSE IF fn = "none" THEN data
        ELSE IF data = PyNone THEN PyRaise("TypeError")
        ELSE ApplyFn(fn, data.v)

\* Cache.get(key, fn): None for an absent key, else fn(data) if fn else data.
CacheGet(db, key, fn) ==
    LET data == RedisGet(db, KeyOf(key))
    IN  IF IsException(data) THEN data
        ELSE IF data = PyNone THEN PyNone
        ELSE IF fn = "none" THEN data
        ELSE ApplyFn(fn, data.v)

\* Cache.get_str(key): get with the UTF-8 decoder.
CacheGetStr(db, key) == CacheGet(db, key, "utf8")

\* Cache.get_int(key): get with int.
CacheGetInt(db, key) == CacheGet(db, key, "int")

\* A caller's read returned val.
Returned(p, op, key, fn, val) ==
    /\ pc[p] = "idle"
    /\ ret' = [ret EXCEPT ![p] = [op |-> op, key |-> key, fn |-> fn, val |-> val]]
    /\ out' = [out EXCEPT ![p] = <<>>]
    /\ UNCHANGED <<redis, plain, pc, frame, log>>

Get(p, key, fn) == Returned(p, "get", key, fn, CacheGet(redis, key, fn))

GetStr(p, key) == Returned(p, "get_str", key, "utf8", CacheGetStr(redis, key))

GetInt(p, key) == Returned(p, "get_int", key, "int", CacheGetInt(redis, key))

\* ------------------------------------------------------------------ replay

\* f"{method_name} was called {call_count} times:"
HeaderLine(count) ==
    QualName \o <<32, 119, 97, 115, 32, 99, 97, 108, 108, 101, 100, 32>>
        \o IntRepr(count) \o <<32, 116, 105, 109, 101, 115, 58>>

\* f"{method_name}(*{inp.decode('utf-8')}) -> {out.decode('utf-8')}"
EntryLine(inp, outp) ==
    QualName \o <<40, 42>> \o Utf8Decode(inp).s \o <<41, 32, 45, 62, 32>>
        \o Utf8Decode(outp).s
\* Zip running to the end of the longer list, the shorter one padded with
\* empty entries (zip_longest).
ZipLongest(inputs, outputs) ==
    [i \in 1..(IF Len(inputs) > Len(outputs) THEN Len(inputs) ELSE Len(outputs))
        |-> <<IF i <= Len(inputs) THEN inputs[i] ELSE <<>>,
              IF i <= Len(outputs) THEN outputs[i] ELSE <<>> >>]

\* zip(inputs, outputs): the pairs up to the end of the shorter list.
Zip(inputs, outputs) ==
    [i \in 1..(IF Len(inputs) < Len(outputs) THEN Len(inputs) ELSE Len(outputs))
        |-> <<inputs[i], outputs[i]>>]

\* The pairs of the for loop that print before one fails to decode.
RECURSIVE Printable(_)
Printable(pairs) ==
    IF pairs = <<>> \/ ~Utf8Decode(Head(pairs)[1]).ok \/ ~Utf8Decode(Head(pairs)[2]).ok
    THEN <<>>
    ELSE <<Head(pairs)>> \o Printable(Tail(pairs))

\* The lines the for loop over zip(inputs, outputs) prints.
EntryLines(inputs, outputs) ==
    LET pairs == Printable(Zip(inputs, outputs))
    IN  [i \in 1..Len(pairs) |-> EntryLine(pairs[i][1], pairs[i][2])]

\* call_count = int(redis_instance.get(method_name) or 0): [ok, n, err].
ReplayCount(db) ==
    LET got == RedisGet(db, CounterKey)
    IN  IF IsException(got) THEN [ok |-> FALSE, n |-> 0, err |-> got.kind]
        ELSE IF got.v = <<>> THEN [ok |-> TRUE, n |-> 0, err |-> ""]
        ELSE IF ParseInt(got.v).ok THEN [ok |-> TRUE, n |-> ParseInt(got.v).n, err |-> ""]
        ELSE [ok |-> FALSE, n |-> 0, err |-> "ValueError"]

\* replay(cache.store), to its first line: the counter is read and the
\* summary line is printed.
ReplayGet(p) ==
    /\ pc[p] = "idle"
    /\ LET c == ReplayCount(redis)
       IN  IF c.ok
           THEN /\ pc' = [pc EXCEPT ![p] = "lrange_in"]
                /\ frame' = [frame EXCEPT ![p] = [NoFrame EXCEPT !.op = "replay"]]
                /\ out' = [out EXCEPT ![p] = <<HeaderLine(c.n)>>]
                /\ ret' = [ret EXCEPT ![p] = NoRet]
           ELSE /\ ret' = [ret EXCEPT ![p] =
                              [NoRet EXCEPT !.op = "replay", !.val = PyRaise(c.err)]]
                /\ out' = [out EXCEPT ![p] = <<>>]
                /\ UNCHANGED <<pc, frame>>
    /\ UNCHANGED <<redis, plain, log>>

\* ReplayInputs consuming the list it reads (the entries are popped).
ReplayInputsConsuming(p) ==
    /\ pc[p] = "lrange_in"
    /\ LET r == RedisLRange(redis, InputsKey, 0, -1)
       IN  IF r.ok
           THEN /\ frame' = [frame EXCEPT ![p].inputs = r.l]
                /\ pc' = [pc EXCEPT ![p] = "lrange_out"]
                /\ redis' = [redis EXCEPT !.list[InputsKey] = <<>>]
                /\ UNCHANGED ret
           ELSE Raise(p, PyRaise("ResponseError")) /\ UNCHANGED redis
    /\ UNCHANGED <<plain, out, log>>

\* inputs = redis_instance.lrange(f"{method_name}:inputs", 0, -1)
ReplayInputs(p) ==
    /\ pc[p] = "lrange_in"
    /\ LET r == RedisLRange(redis, InputsKey, 0, -1)
       IN  IF r.ok
           THEN /\ frame' = [frame EXCEPT ![p].inputs = r.l]
                /\ pc' = [pc EXCEPT ![p] = "lrange_out"]
                /\ UNCHANGED ret
           ELSE Raise(p, PyRaise("ResponseError"))
    /\ UNCHANGED <<redis, plain, out, log>>

\* outputs = redis_instance.lrange(f"{method_name}:outputs", 0, -1), then the
\* for loop that prints one line per pair.
ReplayOutputs(p) ==
    /\ pc[p] = "lrange_out"
    /\ LET r == RedisLRange(redis, OutputsKey, 0, -1)
           lines == EntryLines(frame[p].inputs, r.l)
       IN  IF r.ok
           THEN /\ out' = [out EXCEPT ![p] = @ \o lines]
                /\ Raise(p, IF Len(lines) = Len(Zip(frame[p].inputs, r.l))
                            THEN PyNone ELSE PyRaise("UnicodeDecodeError"))
           ELSE /\ Raise(p, PyRaise("ResponseError"))
                /\ UNCHANGED out
    /\ UNCHANGED <<redis, plain, log>>

\* ------------------------------------------------------------ construction

\* Cache(): another facade is constructed on the same store, by any thread
\* and at any moment, also while a call of store is between two of its steps.
\* self._redis = redis.Redis(); self._redis.flushdb().  The calls in flight
\* go on with their next step on the emptied store.
Construct ==
    /\ built < MaxFacades
    /\ built' = built + 1
    /\ redis' = FlushDb(redis)
    /\ plain' = [plain EXCEPT !.db = FlushDb(plain.db)]
    /\ log' = [i \in 1..Len(log) |->
                  IF log[i].st = "running" THEN [log[i] EXCEPT !.cut = TRUE]
                                           ELSE log[i]]
    /\ UNCHANGED <<pc, frame, ret, out, web>>

\* --------------------------------------------------------------- get_page

\* The calls of get_page made so far.
PageCalls == web.ncalls[<<97>>] + web.ncalls[<<98>>]

\* SETEX giving the key no expiry (a plain SET).
RedisSetNoExpiry(w, key, seconds, b) ==
    [w EXCEPT !.db = RedisSet(w.db, key, b), !.exp[key] = 0]

\* SETEX key seconds value.
RedisSetEx(w, key, seconds, b) ==
    [w EXCEPT !.db = RedisSet(w.db, key, b), !.exp[key] = w.now + seconds]

\* get_page with any cached value, the empty one included, taken as a hit
\* (if cached_content is not None).
PresentInCache(x) == x # PyNone

\* Python's truth value of what GET returned: None and b"" are false.
Truthy(x) == x # PyNone /\ x.v # <<>>

\* count_access.wrapper with the counter left alone.
CountAccessSkipped(u) ==
    /\ web.pc = "idle"
    /\ PageCalls < MaxPageCalls
    /\ web' = [web EXCEPT !.pc = "lookup", !.url = u, !.ret = PyNone,
                          !.ncalls[u] = @ + 1]
    /\ UNCHANGED <<redis, plain, pc, frame, ret, out, log, built>>

\* count_access.wrapper up to the call of the wrapped get_page:
\* _redis.incr(f"count:{url}").
CountAccess(u) ==
    /\ web.pc = "idle"
    /\ PageCalls < MaxPageCalls
    /\ LET r == RedisIncr(web.db, CountKey(u))
       IN  IF r.ok
           THEN web' = [web EXCEPT !.db = r.db, !.pc = "lookup", !.url = u,
                                   !.ret = PyNone, !.ncalls[u] = @ + 1]
           ELSE web' = [web EXCEPT !.ret = PyRaise("ResponseError"),
                                   !.ncalls[u] = @ + 1]
    /\ UNCHANGED <<redis, plain, pc, frame, ret, out, log, built>>

\* The body of get_page: the cached text when GET gives a true value, else
\* requests.get(url), setex of response.text for Ttl seconds, and the text.
GetPage ==
    /\ web.pc = "lookup"
    /\ LET u == web.url
           cached_content == RedisGet(web.db, CacheKey(u))
           content == web.net[u]
           enc == Utf8Encode(content.v)
           done == [web EXCEPT !.pc = "idle", !.url = <<>>]
       IN  IF IsException(cached_content)
           THEN web' = [done EXCEPT !.ret = cached_content, !.hit = FALSE]
           ELSE IF Truthy(cached_content)
           THEN web' = [done EXCEPT !.ret = DecodeUtf8(cached_content.v),
                                    !.hit = TRUE]
           ELSE IF IsException(content)
           THEN web' = [done EXCEPT !.ret = content, !.hit = FALSE,
                                    !.reads[u] = @ + 1]
           ELSE IF ~enc.ok
           THEN web' = [done EXCEPT !.ret = PyRaise("UnicodeEncodeError"),
                                    !.hit = FALSE, !.reads[u] = @ + 1]
           ELSE web' = [RedisSetEx(done, CacheKey(u), Ttl, enc.b)
                            EXCEPT !.ret = content, !.hit = FALSE,
                                   !.reads[u] = @ + 1,
                                   !.last[u] = [done |-> TRUE, at |-> web.now,
                                                text |-> content]]
    /\ UNCHANGED <<redis, plain, pc, frame, ret, out, log, built>>

\* One second passes: the keys whose expiry is reached are deleted.
Tick ==
    /\ web.now < MaxTime
    /\ LET t == web.now + 1
           gone == {k \in WebKeys : web.exp[k] # 0 /\ web.exp[k] <= t}
       IN  web' = [web EXCEPT
                      !.now = t,
                      !.db.str = [k \in WebKeys |->
                                     IF k \in gone THEN Nil ELSE web.db.str[k]],
                      !.db.list = [k \in WebKeys |->
                                     IF k \in gone THEN <<>> ELSE web.db.list[k]],
                      !.exp = [k \in WebKeys |->
                                     IF k \in gone THEN 0 ELSE web.exp[k]]]
    /\ UNCHANGED <<redis, plain, pc, frame, ret, out, log, built>>

\* The URL whose page changes during a run; the other page stays as it is.
Changing == <<97>>

\* The site changes what it serves for the URL Changing, or goes down or
\* comes back.
PageChange(c) ==
    /\ web.net[Changing] # c
    /\ web' = [web EXCEPT !.net[Changing] = c]
    /\ UNCHANGED <<redis, plain, pc, frame, ret, out, log, built>>

\* ---------------------------------------------------------- specifications

\* One caller on one facade: its calls of store, get, get_str, get_int and
\* replay follow one another.
Next ==
    \/ \E d \in Values : CallStore(1, d) /\ UNCHANGED <<built, web>>
    \/ CountCallsWrapper(1) /\ UNCHANGED <<built, web>>
    \/ CallHistoryInput(1) /\ UNCHANGED <<built, web>>
    \/ StoreBody(1) /\ UNCHANGED <<built, web>>
    \/ CallHistoryOutput(1) /\ UNCHANGED <<built, web>>
    \/ \E k \in GetKeys, fn \in Converters : Get(1, k, fn) /\ UNCHANGED <<built, web>>
    \/ \E k \in GetKeys : GetStr(1, k) /\ UNCHANGED <<built, web>>
    \/ \E k \in GetKeys : GetInt(1, k) /\ UNCHANGED <<built, web>>
    \/ ReplayGet(1) /\ UNCHANGED <<built, web>>
    \/ ReplayInputs(1) /\ UNCHANGED <<built, web>>
    \/ ReplayOutputs(1) /\ UNCHANGED <<built, web>>

Spec == Init /\ [][Next]_vars

\* Several callers run store on one facade; the commands of their calls
\* interleave, each command being atomic at the store.
NextConc ==
    \E p \in Procs :
        \/ \E d \in ConcValues : CallStore(p, d) /\ UNCHANGED <<built, web>>
        \/ CountCallsWrapper(p) /\ UNCHANGED <<built, web>>
        \/ CallHistoryInput(p) /\ UNCHANGED <<built, web>>
        \/ StoreBody(p) /\ UNCHANGED <<built, web>>
        \/ CallHistoryOutput(p) /\ UNCHANGED <<built, web>>

SpecConc == Init /\ [][NextConc]_vars

\* The keys read in the specification with constructions.
FlushKeys == {Uuid(1), QualName}

\* Caller 1 runs replay, again and again, while caller 2 calls store on the
\* same facade: the three reads of a replay and the four steps of a call
\* interleave in every way.
NextReplay ==
    \/ \E d \in ConcValues : CallStore(2, d) /\ UNCHANGED <<built, web>>
    \/ CountCallsWrapper(2) /\ UNCHANGED <<built, web>>
    \/ CallHistoryInput(2) /\ UNCHANGED <<built, web>>
    \/ StoreBody(2) /\ UNCHANGED <<built, web>>
    \/ CallHistoryOutput(2) /\ UNCHANGED <<built, web>>
    \/ ReplayGet(1) /\ UNCHANGED <<built, web>>
    \/ ReplayInputs(1) /\ UNCHANGED <<built, web>>
    \/ ReplayOutputs(1) /\ UNCHANGED <<built, web>>

SpecReplay == Init /\ [][NextReplay]_vars

\* One caller whose calls follow one another, and facades constructed on the
\* same store at any moment between two steps of that caller.
NextFlush ==
    \/ \E d \in ConcValues : CallStore(1, d) /\ UNCHANGED <<built, web>>
    \/ CountCallsWrapper(1) /\ UNCHANGED <<built, web>>
    \/ CallHistoryInput(1) /\ UNCHANGED <<built, web>>
    \/ StoreBody(1) /\ UNCHANGED <<built, web>>
    \/ CallHistoryOutput(1) /\ UNCHANGED <<built, web>>
    \/ \E k \in FlushKeys : Get(1, k, "none") /\ UNCHANGED <<built, web>>
    \/ \E k \in FlushKeys : GetStr(1, k) /\ UNCHANGED <<built, web>>
    \/ \E k \in FlushKeys : GetInt(1, k) /\ UNCHANGED <<built, web>>
    \/ ReplayGet(1) /\ UNCHANGED <<built, web>>
    \/ ReplayInputs(1) /\ UNCHANGED <<built, web>>
    \/ ReplayOutputs(1) /\ UNCHANGED <<built, web>>
    \/ Construct

SpecFlush == Init /\ [][NextFlush]_vars

\* One caller of get_page, its calls following one another, while the clock
\* runs and the pages change.
NextWeb ==
    \/ \E u \in Urls : CountAccess(u)
    \/ GetPage
    \/ Tick
    \/ \E c \in NetStates : PageChange(c)

SpecWeb == Init /\ [][NextWeb]_vars

\* ------------------------------------------------------------------ claims

\* The bytes a history list holds for the str s.
Pushed(s) == Utf8Encode(s).b

\* The last store call invoked.
LastCall == log[Len(log)]

AllSucceeded == \A i \in 1..Len(log) : log[i].st = "ok"

\* C1: after any sequence of N >= 0 successful calls of the instrumented
\* store on a constructed facade, the counter under "Cache.store" is N (the
\* key holds the decimal N, and is absent for N = 0) and the inputs and the
\* outputs list each hold N entries.
C1_CountersAfterSuccessfulCalls ==
    (pc[1] = "idle" /\ AllSucceeded) =>
        /\ CounterValue(redis) = Len(log)
        /\ redis.str[CounterKey] = (IF Len(log) = 0 THEN Nil ELSE IntRepr(Len(log)))
        /\ Len(Inputs(redis)) = Len(log)
        /\ Len(Outputs(redis)) = Len(log)

C1_Witness ==
    pc[1] = "idle" /\ AllSucceeded /\ Len(log) = 2 /\ CounterValue(redis) = 2

\* C2: when the wrapped store raises inside the wrappers, the increment and
\* the inputs entry of that call stay, no outputs entry is written for it,
\* and the caller gets the exception the wrapped store raised: after the
\* failed call the counter and len(inputs) are one higher than at the call
\* and len(outputs) is what it was.
C2_FailedCallKeepsCountAndInput ==
    (Len(log) > 0 /\ pc[1] = "idle" /\ LastCall.st = "raised") =>
        /\ CounterValue(redis) = LastCall.pre.count + 1
        /\ Len(Inputs(redis)) = LastCall.pre.nin + 1
        /\ Inputs(redis)[Len(Inputs(redis))] = Pushed(StrOfArgs(LastCall.data))
        /\ Len(Outputs(redis)) = LastCall.pre.nout
        /\ IsException(LastCall.res)
        /\ LastCall.res = PyRaise(RedisEncode(LastCall.data).err)
        /\ ret[1].op = "store" => ret[1].val = LastCall.res

C2_Witness ==
    /\ Len(log) = 2 /\ pc[1] = "idle" /\ LastCall.st = "raised"
    /\ ret[1].op = "store" /\ ret[1].val = PyRaise("DataError")
    /\ log[1].st = "ok"

\* C3: within a call of the instrumented store, when the wrapped operation
\* starts the increment and the inputs entry of the call are in the store,
\* and an outputs entry is written only once the wrapped operation has
\* returned: no entry is added before the data is stored under the key the
\* entry names.
C3_RecordBeforeBodyOutputAfter ==
    Len(log) > 0 =>
        /\ pc[1] = "body" =>
            /\ CounterValue(redis) = LastCall.pre.count + 1
            /\ Len(Inputs(redis)) = LastCall.pre.nin + 1
            /\ Inputs(redis)[Len(Inputs(redis))] = Pushed(StrOfArgs(LastCall.data))
        /\ pc[1] \in {"incr", "rpush_in", "body", "rpush_out"} =>
            Len(Outputs(redis)) = LastCall.pre.nout
        /\ pc[1] = "rpush_out" =>
            redis.str[KeyOf(frame[1].output.v)] = RedisEncode(LastCall.data).b
        /\ Len(Outputs(redis)) > LastCall.pre.nout =>
            /\ LastCall.st = "ok"
            /\ Len(Outputs(redis)) = LastCall.pre.nout + 1
            /\ \E k \in UUIDs :
                /\ Outputs(redis)[Len(Outputs(redis))] = Pushed(k)
                /\ redis.str[KeyOf(k)] = RedisEncode(LastCall.data).b

C3_Witness ==
    /\ Len(log) = 2 /\ pc[1] = "body"
    /\ CounterValue(redis) = 2 /\ Len(Inputs(redis)) = 2 /\ Len(Outputs(redis)) = 1

\* The calls of the log that returned, in invocation order.
OkCalls == SelectSeq(log, LAMBDA c : c.st = "ok")

\* C4 as stated: for sequential calls of one caller, for every i, inputs[i]
\* renders the arguments of the i-th call and outputs[i] renders the key
\* the same i-th call returned.
C4_Original ==
    pc[1] = "idle" =>
        /\ \A i \in 1..Len(Inputs(redis)) :
            Inputs(redis)[i] = Pushed(StrOfArgs(log[i].data))
        /\ \A i \in 1..Len(Outputs(redis)) :
            log[i].st = "ok" /\ Outputs(redis)[i] = Pushed(PyStrOf(log[i].res))

\* C4, amended: for sequential calls of one caller, inputs[i] renders the
\* arguments of the i-th call, and outputs[j] renders the key returned by the
\* j-th call that returned (the data of that call is stored under it); so
\* outputs[i] belongs to the i-th call as long as no call up to the i-th
\* raised.
C4_HistoryInInvocationOrder ==
    pc[1] = "idle" =>
        /\ Len(Inputs(redis)) = Len(log)
        /\ \A i \in 1..Len(log) : Inputs(redis)[i] = Pushed(StrOfArgs(log[i].data))
        /\ Len(Outputs(redis)) = Len(OkCalls)
        /\ \A j \in 1..Len(OkCalls) :
            /\ Outputs(redis)[j] = Pushed(PyStrOf(OkCalls[j].res))
            /\ OkCalls[j].res.kind = "str"
            /\ redis.str[KeyOf(OkCalls[j].res.v)] = RedisEncode(OkCalls[j].data).b
        /\ \A i \in 1..Len(log) :
            (\A h \in 1..i : log[h].st = "ok") =>
                Outputs(redis)[i] = Pushed(PyStrOf(log[i].res))

C4_Witness ==
    /\ pc[1] = "idle" /\ Len(log) = 2
    /\ log[1].st = "raised" /\ log[2].st = "ok"
    /\ Len(Inputs(redis)) = 2 /\ Len(Outputs(redis)) = 1

\* The callers whose call has not yet performed its increment.
BeforeIncr == {p \in Procs : pc[p] = "incr"}

\* C5: with several callers in store at once, no increment is lost or
\* duplicated: in every interleaving the counter is the number of calls that
\* have performed their increment, so once all N calls started have done so
\* the counter is N.
C5_ConcurrentCounterExact ==
    /\ CounterValue(redis) = Len(log) - Cardinality(BeforeIncr)
    /\ BeforeIncr = {} => CounterValue(redis) = Len(log)

C5_Witness ==
    /\ \A p \in Procs : pc[p] \in {"rpush_in", "body", "rpush_out"}
    /\ Len(log) = 2 /\ CounterValue(redis) = 2

\* The keys the instrumentation writes.
InstrumentationKeys == {CounterKey, InputsKey, OutputsKey}

\* C6: the wrappers do not alter the wrapped operation: the instrumented
\* store returns (or raises) what the uninstrumented store returns for the
\* same data and generated key, and the two leave the same contents under
\* every key but the counter and history keys, which the uninstrumented
\* store never writes.
C6_WrappersPreserveStore ==
    /\ (pc[1] = "idle" /\ ret[1].op = "store") => ret[1].val = plain.ret
    /\ \A k \in Keyspace \ InstrumentationKeys :
        redis.str[k] = plain.db.str[k] /\ redis.list[k] = plain.db.list[k]
    /\ \A k \in InstrumentationKeys :
        plain.db.str[k] = Nil /\ plain.db.list[k] = <<>>

C6_Witness ==
    /\ pc[1] = "idle" /\ ret[1].op = "store" /\ ret[1].val.kind = "str"
    /\ Len(log) = 2
    /\ redis.str[KeyOf(ret[1].val.v)] # Nil
    /\ redis.str[CounterKey] # plain.db.str[CounterKey]

\* Whether a store call returned key k, and the call that did.
HasStored(k) == \E i \in 1..Len(log) : log[i].st = "ok" /\ log[i].res = PyStr(k)

StoredBy(k) == CHOOSE i \in 1..Len(log) : log[i].st = "ok" /\ log[i].res = PyStr(k)

\* The value V of the store call that returned the key of the last read.
ReadValue == log[StoredBy(ret[1].key)].data

\* The last finished call was get(key) without a converter, key = store(V).
PlainGetOfStored == ret[1].op = "get" /\ ret[1].fn = "none" /\ HasStored(ret[1].key)

\* C7 as stated: for every value V of a supported kind, get(store(V))
\* without a converter returns V unchanged.
C7_Original == PlainGetOfStored => PyEq(ret[1].val, ReadValue)

\* C7, amended: get(store(V)) without a converter returns the bytes the store
\* holds for V: V itself for a binary V, the UTF-8 encoding of a text, the
\* decimal repr of an integer or a floating-point number; so it returns V
\* unchanged exactly when V is binary.
C7_PlainGetReturnsStoredBytes ==
    PlainGetOfStored =>
        /\ ret[1].val = PyBytes(RedisEncode(ReadValue).b)
        /\ PyEq(ret[1].val, ReadValue) <=> ReadValue.kind = "bytes"
        /\ ReadValue = PyInt(123) => ret[1].val = PyBytes(<<49, 50, 51>>)
        /\ ReadValue = PyInt(-5) => ret[1].val = PyBytes(<<45, 53>>)
        /\ ReadValue = PyFloat(15) => ret[1].val = PyBytes(<<49, 46, 53>>)
        /\ ReadValue = PyStr(<<104, 233>>) => ret[1].val = PyBytes(<<104, 195, 169>>)
        /\ ReadValue = PyBytes(<<104, 255>>) => ret[1].val = PyBytes(<<104, 255>>)

C7_Witness == PlainGetOfStored /\ ReadValue = PyStr(<<104, 233>>) /\ Len(log) = 2

\* C8: round trip under the matching converter: get(store(b)) == b for
\* bytes b; get(store(n), fn=int) == n and get_int(store(n)) == n for an
\* integer n; get(store(s), fn=decode) == s and get_str(store(s)) == s for a
\* text s.
C8_RoundTripWithConverter ==
    (ret[1].op \in {"get", "get_str", "get_int"} /\ HasStored(ret[1].key)) =>
        /\ (ReadValue.kind = "bytes" /\ ret[1].op = "get" /\ ret[1].fn = "none")
            => PyEq(ret[1].val, ReadValue)
        /\ (ReadValue.kind = "int" /\ ret[1].op \in {"get", "get_int"}
                /\ ret[1].fn = "int")
            => PyEq(ret[1].val, ReadValue)
        /\ (ReadValue.kind = "str" /\ ret[1].op \in {"get", "get_str"}
                /\ ret[1].fn = "utf8")
            => PyEq(ret[1].val, ReadValue)

C8_Witness ==
    /\ ret[1].op = "get_str" /\ HasStored(ret[1].key)
    /\ ReadValue = PyStr(<<104, 233>>) /\ ret[1].val = PyStr(<<104, 233>>)
    /\ \E i \in 1..Len(log) : log[i].data = PyInt(-5) /\ log[i].st = "ok"

\* No string and no list is stored under key k.
Absent(db, k) == db.str[KeyOf(k)] = Nil /\ db.list[KeyOf(k)] = <<>>

\* C9: get on a key that was never written returns None, with or without a
\* converter (the converter is not applied), so do get_str and get_int, and
\* the store is left as it was.
C9_MissingKeyIsNone ==
    [][(pc[1] = "idle" /\ ret'[1].op \in {"get", "get_str", "get_int"}
            /\ Absent(redis, ret'[1].key))
        => (ret'[1].val = PyNone /\ redis' = redis)]_vars

C9_Witness ==
    /\ ret[1].op = "get_int" /\ Absent(redis, ret[1].key) /\ ret[1].val = PyNone
    /\ ret[1].key = MissingKey /\ Len(log) = 2 /\ AllSucceeded

\* "Cache.store was called 0 times:"
ZeroCallsLine ==
    <<67, 97, 99, 104, 101, 46, 115, 116, 111, 114, 101, 32, 119, 97, 115, 32,
      99, 97, 108, 108, 101, 100, 32, 48, 32, 116, 105, 109, 101, 115, 58>>

\* The length of the shorter history list.
ShorterLen ==
    IF Len(Inputs(redis)) < Len(Outputs(redis))
    THEN Len(Inputs(redis)) ELSE Len(Outputs(redis))

\* C10: replay prints a summary line with the stored counter (0 when the
\* counter is absent) and then exactly min(len(inputs), len(outputs)) lines,
\* line i pairing inputs[i] with outputs[i] in stored order, also when a
\* failed call left the lists of unequal length; with no recorded call it
\* prints a count of 0 and no entry line.
C10_ReplayRendering ==
    (pc[1] = "idle" /\ ret[1].op = "replay") =>
        /\ ret[1].val = PyNone
        /\ Len(out[1]) = 1 + ShorterLen
        /\ out[1][1] = HeaderLine(CounterValue(redis))
        /\ \A i \in 1..ShorterLen :
            out[1][i + 1] = EntryLine(Inputs(redis)[i], Outputs(redis)[i])
        /\ redis.str[CounterKey] = Nil => out[1] = <<ZeroCallsLine>>

C10_Witness ==
    /\ pc[1] = "idle" /\ ret[1].op = "replay"
    /\ Len(Inputs(redis)) = 2 /\ Len(Outputs(redis)) = 1 /\ Len(out[1]) = 2

\* ------------------------------------------------------------------- C11

\* C11: the 'Cache.store' counter grows by exactly one at the increment step
\* every invocation of store begins with, before the method runs and so
\* whether the call then returns or raises; every other step (the rest of
\* store, get, get_str, get_int, replay) leaves it unchanged; only the flush
\* of a construction resets it, to absent (0).
C11_CounterStepsByOne ==
    [][ IF built' # built
        THEN CounterValue(redis') = 0
        ELSE IF pc[1] = "incr"
        THEN /\ pc'[1] = "rpush_in"
             /\ CounterValue(redis') = CounterValue(redis) + 1
        ELSE CounterValue(redis') = CounterValue(redis) ]_vars

\* A returned call, a flush, then a call counted from zero that raised, and a
\* read after it.
C11_Witness ==
    /\ built = 2 /\ Len(log) = 2
    /\ log[1].st = "ok" /\ log[2].st = "raised" /\ ~log[2].cut
    /\ log[2].pre.count = 0
    /\ CounterValue(redis) = 1
    /\ ret[1].op = "get_int"

\* ------------------------------------------------------------------- C12

\* The keys returned by the calls of store that have returned so far.
ReturnedKeys == {log[i].res.v : i \in {j \in 1..Len(log) : log[j].st = "ok"}}

\* C12: in the state right after any construction of a facade no key is left
\* in the store: every key a call of store returned reads as absent, the
\* 'Cache.store' counter is absent and reads as 0, and both history lists
\* are empty.
C12_ConstructionClearsStore ==
    [][ built' # built =>
            /\ \A k \in Keyspace :
                redis'.str[KeyOf(k)] = Nil /\ redis'.list[KeyOf(k)] = <<>>
            /\ \A k \in ReturnedKeys : CacheGet(redis', k, "none") = PyNone
            /\ redis'.str[CounterKey] = Nil /\ CounterValue(redis') = 0
            /\ Inputs(redis') = <<>> /\ Outputs(redis') = <<>> ]_vars

\* A second facade was constructed after a call of store had returned its
\* key, and nothing was written since.
C12_Witness ==
    /\ built = 2
    /\ ReturnedKeys # {}
    /\ \A i \in 1..Len(log) : log[i].st = "ok"
    /\ redis = EmptyDb

\* ------------------------------------------------------------------- C13

\* The call of get_page in progress looks its URL up less than Ttl seconds
\* after a network read for that URL was cached.
InWindow ==
    /\ web.pc = "lookup"
    /\ web.last[web.url].done
    /\ web.now - web.last[web.url].at < Ttl

\* C13: for every URL and every page text, once a call of get_page has read
\* the page from the network and cached it, a call of get_page for the same
\* URL within the Ttl seconds that follow returns the same text and makes no
\* network read.
C13_SecondCallServedFromCache ==
    [][ (InWindow /\ web'.pc = "idle") =>
            /\ web'.ret = web.last[web.url].text
            /\ web'.reads = web.reads ]_vars

\* A page with the empty text was cached less than Ttl seconds ago, and the
\* next call for its URL has read the network again and returned another
\* text.
C13_Witness ==
    /\ web.pc = "idle" /\ ~web.hit
    /\ web.reads[<<97>>] = 2 /\ web.ncalls[<<97>>] = 2
    /\ web.now < Ttl
    /\ web.ret = PyStr(<<104, 233>>)
    /\ web.last[<<97>>].text = PyStr(<<104, 233>>)

\* C13 for the pages whose text is not empty: within the window the cached
\* text is returned and the network is not read.
NonEmptyServedFromCache ==
    [][ (InWindow /\ web'.pc = "idle" /\ web.last[web.url].text # PyStr(<<>>)) =>
            /\ web'.ret = web.last[web.url].text
            /\ web'.hit
            /\ web'.reads = web.reads ]_vars

\* ------------------------------------------------------------------- C14

\* The call of get_page in progress looks its URL up Ttl seconds or more
\* after the last network read that was cached for it.
AfterWindow ==
    /\ web.pc = "lookup"
    /\ web.last[web.url].done
    /\ web.now - web.last[web.url].at >= Ttl

\* C14: a cached page is in the store exactly during the Ttl = 10 seconds
\* that follow the network read that cached it; a call of get_page that looks
\* its URL up after that window reads the network again, and the text it gets
\* is returned and cached again to expire Ttl seconds after this new read
\* (when requests.get raises there is no text and nothing is cached).
C14_ExpiryAndRecache ==
    [][ /\ \A u \in Urls :
            web'.last[u].done =>
                /\ web'.db.str[CacheKey(u)] # Nil
                       <=> web'.now - web'.last[u].at < Ttl
                /\ web'.db.str[CacheKey(u)] # Nil =>
                       web'.exp[CacheKey(u)] = web'.last[u].at + Ttl
        /\ (AfterWindow /\ web'.pc = "idle") =>
            LET u == web.url
            IN  /\ web'.reads[u] = web.reads[u] + 1
                /\ ~web'.hit
                /\ web'.ret = web.net[u]
                /\ ~IsException(web.net[u]) =>
                    /\ web'.db.str[CacheKey(u)] = Utf8Encode(web.net[u].v).b
                    /\ web'.exp[CacheKey(u)] = web.now + Ttl
                    /\ web'.last[u] = [done |-> TRUE, at |-> web.now,
                                       text |-> web.net[u]] ]_vars

\* The page of "a" was read and cached, expired, and a second call read it
\* from the network again and cached it for Ttl more seconds.
C14_Witness ==
    /\ web.pc = "idle" /\ ~web.hit
    /\ web.ncalls[<<97>>] = 2 /\ web.reads[<<97>>] = 2
    /\ web.last[<<97>>].done /\ web.last[<<97>>].at >= Ttl
    /\ web.ret = web.last[<<97>>].text
    /\ web.db.str[CacheKey(<<97>>)] # Nil
    /\ web.exp[CacheKey(<<97>>)] = web.last[<<97>>].at + Ttl

\* ------------------------------------------------------------------- C15

\* The access counter of a URL as stored: 0 when the key is absent.
AccessCount(u) ==
    IF web.db.str[CountKey(u)] = Nil THEN 0
    ELSE ParseInt(web.db.str[CountKey(u)]).n

\* C15: at every moment, the lookup of the cache by a call in progress
\* included, the counter 'count:{url}' of every URL equals the number of
\* calls of get_page made for that URL, whether they hit the cache, missed it
\* or raised; the counter key has no expiry and outlives the cached page.
C15_AccessCounterCountsCalls ==
    \A u \in Urls :
        /\ AccessCount(u) = web.ncalls[u]
        /\ web.ncalls[u] > 0 => web.db.str[CountKey(u)] = IntRepr(web.ncalls[u])
        /\ web.exp[CountKey(u)] = 0

\* Two calls for "a", the second a hit, one call for "b", and the third call
\* looking up a cache whose page of "a" has expired.
C15_Witness ==
    /\ web.pc = "lookup" /\ web.url = <<98>> /\ web.hit
    /\ web.ncalls[<<97>>] = 2 /\ web.ncalls[<<98>>] = 1
    /\ web.reads[<<97>>] = 1 /\ web.reads[<<98>>] = 0
    /\ AccessCount(<<97>>) = 2 /\ AccessCount(<<98>>) = 1
    /\ web.now >= Ttl /\ web.db.str[CacheKey(<<97>>)] = Nil

\* ------------------------------------------------------------------- C16

\* The step is one of the three reads of a replay by caller 1.
ReplayStep ==
    \/ pc[1] = "idle" /\ pc'[1] = "lrange_in"
    \/ pc[1] = "idle" /\ ret'[1].op = "replay"
    \/ pc[1] = "lrange_in"
    \/ pc[1] = "lrange_out"

\* C16: no step of replay changes the store: the counter, the two history
\* lists and every stored value are after the step what they were before it,
\* whatever the store held.
C16_ReplayLeavesStoreUnchanged ==
    [][ ReplayStep =>
            /\ redis' = redis
            /\ CounterValue(redis') = CounterValue(redis)
            /\ Inputs(redis') = Inputs(redis)
            /\ Outputs(redis') = Outputs(redis)
            /\ \A k \in UUIDs : RedisGet(redis', KeyOf(k)) = RedisGet(redis, KeyOf(k))
      ]_vars

\* A replay that printed two entry lines has finished on a store that still
\* holds the counter, both lists in full and the two stored values.
C16_Witness ==
    /\ pc[1] = "idle" /\ ret[1].op = "replay" /\ Len(out[1]) = 3
    /\ CounterValue(redis) = 2
    /\ Len(Inputs(redis)) = 2 /\ Len(Outputs(redis)) = 2
    /\ \A i \in 1..2 : RedisGet(redis, KeyOf(log[i].res.v)) # PyNone

\* ------------------------------------------------------------------- C17

\* inputs[i] was appended by call a and outputs[i], at the same index i, by
\* another call b (a returned key is in the store only once).
Mispaired(a, b) ==
    /\ a # b
    /\ log[a].ipos > 0 /\ log[a].ipos <= Len(Outputs(redis))
    /\ log[b].st = "ok"
    /\ Outputs(redis)[log[a].ipos] = Pushed(PyStrOf(log[b].res))

\* Call d began while call c was running.
Overlapped(c, d) == c \in log[d].conc

NoneRaised == \A i \in 1..Len(log) : log[i].st # "raised"

\* C17: two callers of store on the same facade can reach a state where some
\* index holds the input of one caller's call and the output of the other
\* caller's call (C17_Witness); and as long as no call has raised, such a
\* wrong pair exists only if two calls, of different callers, ran at the same
\* time: it comes from the four steps not being atomic.
C17_MispairingNeedsOverlap ==
    (NoneRaised /\ \E a, b \in 1..Len(log) : Mispaired(a, b)) =>
        \E c, d \in 1..Len(log) :
            /\ Overlapped(c, d)
            /\ log[c].by # log[d].by

\* Both callers' calls have returned, none raised, and index 1 holds the
\* input of caller 1's call and the output of caller 2's call.
C17_Witness ==
    /\ \A p \in Procs : pc[p] = "idle"
    /\ Len(log) = 2 /\ log[1].st = "ok" /\ log[2].st = "ok"
    /\ \E a, b \in 1..2 :
        /\ log[a].by = 1 /\ log[b].by = 2
        /\ log[a].ipos = 1
        /\ Mispaired(a, b)

\* ------------------------------------------------------------------- C18

\* C18: with concurrent callers on one facade and no other construction,
\* every reachable state, between any two steps of any calls and whether the
\* calls return or raise, has len(outputs) <= len(inputs) <= counter.
C18_HistoryWithinCounter ==
    /\ Len(Outputs(redis)) <= Len(Inputs(redis))
    /\ Len(Inputs(redis)) <= CounterValue(redis)

\* Two calls that ran at the same time: the first has raised after its input
\* was recorded, the second has incremented the counter and recorded nothing
\* yet: outputs 0 < inputs 1 < counter 2.
C18_Witness ==
    /\ Len(log) = 2 /\ Overlapped(1, 2)
    /\ log[1].st = "raised" /\ pc[log[2].by] = "rpush_in"
    /\ CounterValue(redis) = 2
    /\ Len(Inputs(redis)) = 1 /\ Len(Outputs(redis)) = 0

\* ------------------------------------------------------------------- C19

\* The calls of store that were running when a facade was constructed.
CutCalls == Cardinality({i \in 1..Len(log) : log[i].cut})

\* C19: the relation len(outputs) <= len(inputs) <= counter still holds in
\* every state that follows the construction of a facade, flushing the store,
\* made while a call of store was between its increment and its output
\* append.
C19_Original ==
    CutCalls > 0 =>
        /\ Len(Outputs(redis)) <= Len(Inputs(redis))
        /\ Len(Inputs(redis)) <= CounterValue(redis)

\* C19 as the code has it: each call that was running when a facade was
\* constructed can put one entry more in a list than the relation allows,
\* its remaining appends landing in the flushed store; with no such call the
\* relation holds, constructions included.
C19_RelationUpToCutCalls ==
    /\ Len(Outputs(redis)) <= Len(Inputs(redis)) + CutCalls
    /\ Len(Inputs(redis)) <= CounterValue(redis) + CutCalls

\* A facade was constructed while a call was past its input append; the call
\* then appended its output to the emptied store: outputs 1 > inputs 0.
C19_Witness ==
    /\ built = 2 /\ Len(log) = 1
    /\ log[1].cut /\ log[1].st = "ok" /\ log[1].ipos = 1
    /\ Len(Outputs(redis)) = 1 /\ Len(Inputs(redis)) = 0
    /\ CounterValue(redis) = 0

\* ------------------------------------------------------------------- C20

\* Caller 1's replay has printed its summary line with the count n.
Rendered(n) == Len(out[1]) > 0 /\ out[1][1] = HeaderLine(n)

\* The entry lines caller 1's replay has printed.
EntryCount == Len(out[1]) - 1

ReplayDone == pc[1] = "idle" /\ ret[1].op = "replay" /\ ret[1].val = PyNone

\* C20: a replay that ran while store was being called never prints more
\* entry lines than the call count of its summary line.
C20_Original ==
    ReplayDone => \E n \in 0..MaxCalls : Rendered(n) /\ EntryCount <= n

\* C20 as the code has it: the count of the summary line is the counter as it
\* was at the first read and the entry lines come from the lists as they were
\* at the later reads, so the lines can outnumber the printed count; what
\* holds is that neither the printed count nor the number of entry lines
\* exceeds the counter as it is when the replay ends.
C20_ReplayWithinFinalCounter ==
    ReplayDone =>
        /\ EntryCount <= CounterValue(redis)
        /\ \E n \in 0..CounterValue(redis) : Rendered(n)

\* A replay read the counter before a call of store began and the lists
\* after it returned: "called 0 times" followed by one entry line.
C20_Witness ==
    /\ ReplayDone
    /\ Rendered(0) /\ EntryCount = 1
    /\ Len(log) = 1 /\ log[1].st = "ok" /\ log[1].by = 2

====
